---- MODULE Spec2Model ----
(***************************************************************************)
(* Model of headcount.py: the daily headcount change report.               *)
(*                                                                         *)
(*   Database.get_data  turns the rows of the snapshot query into records  *)
(*   get_changes        diffs the previous-day and target-day snapshots    *)
(*   main_job           get_changes, render the report, send the email     *)
(*                                                                         *)
(* Two specifications share the variables and the get_changes loop:        *)
(*   Spec      main_job over a Database (query rows, decoding, failures)   *)
(*   DiffSpec  get_changes over a data source whose get_data returns       *)
(*             arbitrary bounded lists of records                          *)
(***************************************************************************)
EXTENDS Integers, Sequences, FiniteSets, TLC

VARIABLES
    db,         \* the data source: what it holds (DiffSpec) or has answered
                \* in this run (Spec) for old_day and for check_date
    pc,         \* position of the run
    old_dict,   \* get_changes: old_dict, employee_id -> previous-day record
    new_list,   \* get_changes: the list db.get_data(check_date) returned
    idx,        \* get_changes: 1-based position of the for loop in new_list
    results,    \* get_changes: results
    error,      \* the exception that ended the run, or NoError
    fetches,    \* the days get_data was called for in this run, in order
    rendered,   \* main_job: template.render has produced the report
    sent        \* main_job: outcome of send_email ("no" = never invoked)

vars == <<db, pc, old_dict, new_list, idx, results, error, fetches, rendered, sent>>

-----------------------------------------------------------------------------
(* Bounds *)

\* Largest number of records in one snapshot.
MaxRows == 2

-----------------------------------------------------------------------------
(* Python values.  None, str and bytes are tagged tuples so that None, the  *)
(* empty string and the empty bytes object are three different values.     *)

None == <<"None">>

\* a str, as its sequence of code points
Str(s) == <<"str", s>>

\* a bytes object, as its sequence of byte values
Bytes(b) == <<"bytes", b>>

\* dict.get(key): the value, or None when the key is missing
Get(r, key) == IF key \in DOMAIN r THEN r[key] ELSE None

\* the dict r with r[key] = value (the key is added when missing)
SetItem(r, key, value) ==
    [k \in (DOMAIN r) \cup {key} |-> IF k = key THEN value ELSE r[k]]

\* The tuple of field names get_changes compares, in its order.
Fields ==
    << "employee_name", "last_name", "first_name", "business_title",
       "worker_status", "employee_type", "job_code", "job_title", "job_family",
       "cost_center", "manager", "management_level", "email_primary_work" >>

FieldSet == {Fields[i] : i \in 1..Len(Fields)}

\* no exception has been raised
NoError == [exc |-> "none", in |-> "none"]

-----------------------------------------------------------------------------
(* get_changes *)

\* the empty dict
EmptyDict == [k \in {} |-> None]

\* {r.get('employee_id'): r for r in rows}: a later row replaces an earlier
\* one with the same key
RECURSIVE IndexPrefix(_, _)
IndexPrefix(rows, n) ==
    IF n = 0 THEN EmptyDict
    ELSE SetItem(IndexPrefix(rows, n - 1), Get(rows[n], "employee_id"), rows[n])

\* Variant: the first row with a key is kept (setdefault instead of assignment).
RECURSIVE IndexSuffix(_, _)
IndexSuffix(rows, n) ==
    IF n > Len(rows) THEN EmptyDict
    ELSE SetItem(IndexSuffix(rows, n + 1), Get(rows[n], "employee_id"), rows[n])

IndexById_FirstWins(rows) == IndexSuffix(rows, 1)

IndexById(rows) == IndexPrefix(rows, Len(rows))

\* Variant: null and the empty string compare equal
\* ((old_value or '') != (new_value or '')).
OrEmpty(value) == IF value = None THEN Str(<<>>) ELSE value

Differs_NullAsEmpty(old_value, new_value) ==
    ~(OrEmpty(old_value) = OrEmpty(new_value))

\* not old_value == new_value
Differs(old_value, new_value) == ~(old_value = new_value)

\* Variant: the two values change places.
Delta_Swapped(field, old_value, new_value) ==
    [field |-> field, old |-> new_value, new |-> old_value]

\* {'field': field, 'old': old_value, 'new': new_value}
Delta(field, old_value, new_value) ==
    [field |-> field, old |-> old_value, new |-> new_value]

\* the inner for loop: the deltas of the fields from position i on
RECURSIVE ChangesFrom(_, _, _)
ChangesFrom(old, new, i) ==
    IF i > Len(Fields) THEN <<>>
    ELSE LET field == Fields[i]
             old_value == Get(old, field)
             new_value == Get(new, field)
         IN  (IF Differs(old_value, new_value)
              THEN <<Delta(field, old_value, new_value)>>
              ELSE <<>>) \o ChangesFrom(old, new, i + 1)

AddedEvent(new) == [result |-> "added", data |-> new]

\* Variant: the event carries the previous-day record.
ChangedEvent_OldData(old, new, changes) ==
    [result |-> "changed", data |-> old, changes |-> changes]

ChangedEvent(old, new, changes) ==
    [result |-> "changed", data |-> new, changes |-> changes]

\* Variant: the event is appended without the test of changes.
ChangedEvents_Always(old, new, changes) ==
    <<[result |-> "changed", data |-> new, changes |-> changes]>>

\* if changes: results.append({... 'changed' ...})
ChangedEvents(old, new, changes) ==
    IF changes # <<>> THEN <<ChangedEvent(old, new, changes)>> ELSE <<>>

\* Variant: a missing previous-day record is compared as an empty dict
\* (old_dict.get(employee_id, {})) instead of being reported as added.
LoopBody_NoAdded(odict, new) ==
    LET employee_id == Get(new, "employee_id")
        old == IF employee_id \in DOMAIN odict THEN odict[employee_id] ELSE EmptyDict
        changes == ChangesFrom(old, new, 1)
    IN  IF changes # <<>>
        THEN <<[result |-> "changed", data |-> new, changes |-> changes]>>
        ELSE <<>>

\* One pass of the outer loop body: the events it appends for the record new
\* (none or one).
LoopBody(odict, new) ==
    LET employee_id == Get(new, "employee_id")
    IN  IF employee_id \notin DOMAIN odict
        THEN <<AddedEvent(new)>>
        ELSE LET old == odict[employee_id]
             IN  ChangedEvents(old, new, ChangesFrom(old, new, 1))

\* Variant: the events are put at the front (results.insert(0, event)).
AppendAll_Front(res, events) == events \o res

\* results.append(event) for each event of events
AppendAll(res, events) == res \o events

\* for new in ...: one iteration
Iterate ==
    /\ pc = "loop"
    /\ idx <= Len(new_list)
    /\ results' = AppendAll(results, LoopBody(old_dict, new_list[idx]))
    /\ idx' = idx + 1
    /\ UNCHANGED <<db, pc, old_dict, new_list, error, fetches, rendered, sent>>

\* return results
Return ==
    /\ pc = "loop"
    /\ idx > Len(new_list)
    /\ pc' = "returned"
    /\ UNCHANGED <<db, old_dict, new_list, idx, results, error, fetches, rendered, sent>>

-----------------------------------------------------------------------------
(* DiffSpec: get_changes over a data source whose get_data returns the     *)
(* lists it holds, db.old for old_day and db.new for check_date.           *)

\* a str of one or no character, for the tables below
N == None
E == Str(<<>>)
A == Str(<<65>>)
B == Str(<<66>>)

\* the record of employee id whose fields, in the order of Fields, are vals
Rec(id, vals) ==
    [k \in FieldSet \cup {"employee_id"} |->
        IF k = "employee_id" THEN id
        ELSE vals[CHOOSE i \in 1..Len(Fields) : Fields[i] = k]]

\* the dict r without the keys of keys
Without(r, keys) == [k \in (DOMAIN r) \ keys |-> r[k]]

\* Field values of the sample records.  Between them every field but
\* worker_status, job_title and cost_center differs in some pair, and the
\* pairs cover null/null, null/empty, null/text, text/null and text/text.
\*            name last first title status type code jtitle family cost mgr level email
SampleA == << A,   N,   A,    A,    A,     E,   A,   N,     A,     A,   N,  A,    A >>
SampleB == << A,   N,   N,    B,    A,     N,   A,   N,     E,     A,   A,  A,    B >>
SampleC == << B,   A,   E,    A,    A,     E,   B,   N,     A,     A,   B,  N,    B >>

\* The records a snapshot is drawn from.  The last one has no last_name and
\* no first_name key.
SampleRecords ==
    { Rec("E1", SampleA), Rec("E1", SampleB), Rec("E1", SampleC),
      Rec("E2", SampleA), Rec("E2", SampleB),
      Without(Rec("E2", SampleC), {"last_name", "first_name"}) }

\* all lists of at most n elements of S
SeqsUpTo(S, n) == UNION {[1..k -> S] : k \in 0..n}

DiffSnapshots == SeqsUpTo(SampleRecords, MaxRows)

DiffInit ==
    /\ db \in [old : DiffSnapshots, new : DiffSnapshots]
    /\ pc = "get_old"
    /\ old_dict = EmptyDict
    /\ new_list = <<>>
    /\ idx = 1
    /\ results = <<>>
    /\ error = NoError
    /\ fetches = <<>>
    /\ rendered = FALSE
    /\ sent = "no"

\* old_dict = {... for r in db.get_data(old_day)}
DiffGetOld ==
    /\ pc = "get_old"
    /\ old_dict' = IndexById(db.old)
    /\ fetches' = Append(fetches, "old")
    /\ pc' = "get_new"
    /\ UNCHANGED <<db, new_list, idx, results, error, rendered, sent>>

\* results = []; for new in db.get_data(check_date)
DiffGetNew ==
    /\ pc = "get_new"
    /\ new_list' = db.new
    /\ results' = <<>>
    /\ idx' = 1
    /\ fetches' = Append(fetches, "new")
    /\ pc' = "loop"
    /\ UNCHANGED <<db, old_dict, error, rendered, sent>>

DiffNext == DiffGetOld \/ DiffGetNew \/ Iterate \/ Return

DiffSpec == DiffInit /\ [][DiffNext]_vars

-----------------------------------------------------------------------------
(* Database: the snapshot query and get_data *)

\* The select list of the outer query of get_data, in order.
SelectList ==
    << "EMPLOYEE_ID", "WORKER_STATUS", "EMPLOYEE_TYPE", "JOB_CODE", "JOB_TITLE",
       "JOB_FAMILY", "COST_CENTER", "MANAGEMENT_LEVEL", "EMAIL_PRIMARY_WORK",
       "EMPLOYEE_NAME_RAW", "BUSINESS_TITLE_RAW", "MANAGER_RAW" >>

\* str.lower() on the column names of the select list
Lower(name) ==
    CASE name = "EMPLOYEE_ID" -> "employee_id"
      [] name = "WORKER_STATUS" -> "worker_status"
      [] name = "EMPLOYEE_TYPE" -> "employee_type"
      [] name = "JOB_CODE" -> "job_code"
      [] name = "JOB_TITLE" -> "job_title"
      [] name = "JOB_FAMILY" -> "job_family"
      [] name = "COST_CENTER" -> "cost_center"
      [] name = "MANAGEMENT_LEVEL" -> "management_level"
      [] name = "EMAIL_PRIMARY_WORK" -> "email_primary_work"
      [] name = "EMPLOYEE_NAME_RAW" -> "employee_name_raw"
      [] name = "BUSINESS_TITLE_RAW" -> "business_title_raw"
      [] name = "MANAGER_RAW" -> "manager_raw"

\* make_dict_factory: col_names = [d[0].lower() for d in cursor.description]
\* and convert_row(*args) = dict(zip(col_names, args))
ConvertRow(args) ==
    LET col_names == [i \in DOMAIN SelectList |-> Lower(SelectList[i])]
        n == IF Len(args) < Len(col_names) THEN Len(args) ELSE Len(col_names)
    IN  [k \in {col_names[i] : i \in 1..n} |->
            args[CHOOSE i \in 1..n : col_names[i] = k]]

\* q: the rows of the cursor, each through the row factory
q(tuples) == [i \in DOMAIN tuples |-> ConvertRow(tuples[i])]

\* bytes.decode() of the byte sequence b (UTF-8, strict): ok and the code
\* points, or not ok
RECURSIVE Utf8(_)
Utf8(b) ==
    LET Cont(i) == i <= Len(b) /\ b[i] \in 128..191
        Then(cp, n) ==
            LET rest == Utf8(SubSeq(b, n + 1, Len(b)))
            IN  [ok |-> rest.ok, s |-> IF rest.ok THEN <<cp>> \o rest.s ELSE <<>>]
    IN  IF b = <<>> THEN [ok |-> TRUE, s |-> <<>>]
        ELSE IF b[1] < 128 THEN Then(b[1], 1)
        ELSE IF b[1] \in 194..223 /\ Cont(2)
            THEN Then((b[1] - 192) * 64 + (b[2] - 128), 2)
        ELSE IF /\ b[1] \in 224..239 /\ Cont(2) /\ Cont(3)
                /\ (b[1] = 224 => b[2] >= 160)
                /\ (b[1] = 237 => b[2] <= 159)
            THEN Then((b[1] - 224) * 4096 + (b[2] - 128) * 64 + (b[3] - 128), 3)
        ELSE IF /\ b[1] \in 240..244 /\ Cont(2) /\ Cont(3) /\ Cont(4)
                /\ (b[1] = 240 => b[2] >= 144)
                /\ (b[1] = 244 => b[2] <= 143)
            THEN Then((b[1] - 240) * 262144 + (b[2] - 128) * 4096
                        + (b[3] - 128) * 64 + (b[4] - 128), 4)
        ELSE [ok |-> FALSE, s |-> <<>>]

\* value.decode(): the exception it raises ("none" when it returns) and the
\* str it returns.  None has no decode attribute.
Decode(value) ==
    IF value = None THEN [exc |-> "AttributeError", value |-> None]
    ELSE LET u == Utf8(value[2])
         IN  IF u.ok THEN [exc |-> "none", value |-> Str(u.s)]
             ELSE [exc |-> "UnicodeDecodeError", value |-> None]

\* The three assignments of the body of the loop of get_data; each is given
\* the exception of the one before and does nothing once one is raised.
SetEmployeeName(st) ==
    LET d == Decode(Get(st.r, "employee_name_raw"))
    IN  IF d.exc # "none" THEN [exc |-> d.exc, r |-> st.r]
        ELSE [exc |-> "none", r |-> SetItem(st.r, "employee_name", d.value)]

\* r[name] = None if r.get(name + '_raw') is None else r.get(name + '_raw').decode()
SetOptional(st, name, raw_name) ==
    IF st.exc # "none" THEN st
    ELSE IF Get(st.r, raw_name) = None
        THEN [exc |-> "none", r |-> SetItem(st.r, name, None)]
    ELSE LET d == Decode(Get(st.r, raw_name))
         IN  IF d.exc # "none" THEN [exc |-> d.exc, r |-> st.r]
             ELSE [exc |-> "none", r |-> SetItem(st.r, name, d.value)]

\* Variant: the record also gets a last_name, taken from the name.
DecodeRow_WithLastName(r) ==
    LET st == SetOptional(SetOptional(SetEmployeeName([exc |-> "none", r |-> r]),
                  "business_title", "business_title_raw"), "manager", "manager_raw")
    IN  IF st.exc # "none" THEN st
        ELSE [exc |-> "none", r |-> SetItem(st.r, "last_name", st.r["employee_name"])]

\* the body of the loop of get_data on the row r
DecodeRow(r) ==
    SetOptional(SetOptional(SetEmployeeName([exc |-> "none", r |-> r]),
        "business_title", "business_title_raw"), "manager", "manager_raw")

\* for r in result: ... over the rows from position i on; the first exception
\* ends it
RECURSIVE DecodeFrom(_, _)
DecodeFrom(result, i) ==
    IF i > Len(result) THEN [exc |-> "none", rows |-> <<>>]
    ELSE LET st == DecodeRow(result[i])
         IN  IF st.exc # "none" THEN [exc |-> st.exc, rows |-> <<>>]
             ELSE LET rest == DecodeFrom(result, i + 1)
                  IN  IF rest.exc # "none" THEN rest
                      ELSE [exc |-> "none", rows |-> <<st.r>> \o rest.rows]

\* Database.get_data(day), where answer is what the database answers to the
\* query for that day: an exception, or the tuples of the cursor
get_data(answer) ==
    IF answer.exc # "none" THEN [exc |-> answer.exc, rows |-> <<>>]
    ELSE DecodeFrom(q(answer.tuples), 1)

-----------------------------------------------------------------------------
(* The answers of the database *)

\* bytes of one character: A, B, e-acute (two bytes), and a lead byte alone
bA == Bytes(<<65>>)
bB == Bytes(<<66>>)
bEacute == Bytes(<<195, 169>>)
bBroken == Bytes(<<195>>)

\* the tuple of employee id with the values vals for the other columns
Tuple(id, vals) == <<id>> \o vals

\* Column values of the sample tuples, in the order of SelectList after
\* EMPLOYEE_ID.           status type code jtitle family cost level email | name     title    manager
TupleFull    == << A,     A,   A,   A,     A,     A,   A,    A,      bA,      bA,      bA >>
TupleNulls   == << N,     N,   N,   N,     N,     N,   N,    N,      bEacute, N,       N >>
TupleMoved   == << B,     A,   B,   A,     B,     A,   B,    A,      bB,      bEacute, bA >>
TupleNoName  == << A,     A,   A,   A,     A,     A,   A,    A,      N,       bA,      bA >>
TupleBadName == << A,     A,   A,   A,     A,     A,   A,    A,      bBroken, bA,      bA >>
TupleBadBoss == << A,     A,   A,   A,     A,     A,   A,    A,      bA,      N,       bBroken >>

SampleTuples ==
    { Tuple("E1", TupleFull), Tuple("E1", TupleNulls), Tuple("E1", TupleMoved),
      Tuple("E1", TupleNoName), Tuple("E1", TupleBadName), Tuple("E1", TupleBadBoss),
      Tuple("E2", TupleFull), Tuple("E2", TupleNulls), Tuple("E2", TupleNoName),
      Tuple("E3", TupleMoved) }

\* The query keeps the row of rank 1 of each EMPLOYEE_ID partition: its
\* result has one tuple per employee, in no stated order.
QueryResults ==
    {t \in SeqsUpTo(SampleTuples, MaxRows) :
        \A i, j \in DOMAIN t : t[i][1] = t[j][1] => i = j}

\* what the database answers for one day: the tuples, or a failure of the
\* query
Answers ==
    {[exc |-> "none", tuples |-> t] : t \in QueryResults}
        \cup {[exc |-> "DatabaseError", tuples |-> <<>>]}

\* the database has not been asked yet
Unasked == [exc |-> "unasked", tuples |-> <<>>]

-----------------------------------------------------------------------------
(* main_job *)

\* Variant: the exception is logged and the run goes on with what it has.
Propagate_Swallowed(exc, where) ==
    /\ error' = [exc |-> exc, in |-> where]
    /\ pc' = "returned"

\* An exception raised in where: nothing in main_job or get_changes catches
\* it, the run ends.
Propagate(exc, where) ==
    /\ error' = [exc |-> exc, in |-> where]
    /\ pc' = "aborted"

Init ==
    /\ db = [old |-> Unasked, new |-> Unasked]
    /\ pc = "start"
    /\ old_dict = EmptyDict
    /\ new_list = <<>>
    /\ idx = 1
    /\ results = <<>>
    /\ error = NoError
    /\ fetches = <<>>
    /\ rendered = FALSE
    /\ sent = "no"

\* main_job up to settings.db: Database(settings) connects, or fails to
Connect ==
    /\ pc = "start"
    /\ \E ok \in BOOLEAN :
          IF ok THEN pc' = "get_old" /\ error' = error
          ELSE Propagate("DatabaseError", "connect")
    /\ UNCHANGED <<db, old_dict, new_list, idx, results, fetches, rendered, sent>>

\* old_dict = {r.get('employee_id'): r for r in db.get_data(old_day)}
GetOld ==
    /\ pc = "get_old"
    /\ fetches' = Append(fetches, "old")
    /\ \E answer \in Answers :
          /\ db' = [db EXCEPT !.old = answer]
          /\ LET got == get_data(answer)
             IN  IF got.exc = "none"
                 THEN /\ old_dict' = IndexById(got.rows)
                      /\ pc' = "get_new"
                      /\ error' = error
                 ELSE /\ Propagate(got.exc, "get_data")
                      /\ UNCHANGED old_dict
    /\ UNCHANGED <<new_list, idx, results, rendered, sent>>

\* results = []; for new in db.get_data(check_date)
GetNew ==
    /\ pc = "get_new"
    /\ fetches' = Append(fetches, "new")
    /\ results' = <<>>
    /\ \E answer \in Answers :
          /\ db' = [db EXCEPT !.new = answer]
          /\ LET got == get_data(answer)
             IN  IF got.exc = "none"
                 THEN /\ new_list' = got.rows
                      /\ pc' = "loop"
                      /\ error' = error
                 ELSE /\ Propagate(got.exc, "get_data")
                      /\ UNCHANGED new_list
    /\ idx' = 1
    /\ UNCHANGED <<old_dict, rendered, sent>>

\* changes = get_changes(...); the template is loaded and rendered, or that
\* fails
Render ==
    /\ pc = "returned"
    /\ \E ok \in BOOLEAN :
          IF ok THEN rendered' = TRUE /\ pc' = "send" /\ error' = error
          ELSE Propagate("TemplateError", "render") /\ UNCHANGED rendered
    /\ UNCHANGED <<db, old_dict, new_list, idx, results, fetches, sent>>

\* send_email: True, False when the recipients are refused, or an exception
\* of the connection or the login
SendEmail ==
    /\ pc = "send"
    /\ \E outcome \in {"True", "False", "raised"} :
          /\ sent' = outcome
          /\ IF outcome = "raised" THEN Propagate("SMTPException", "send_email")
             ELSE pc' = "done" /\ error' = error
    /\ UNCHANGED <<db, old_dict, new_list, idx, results, fetches, rendered>>

\* the scheduler starts the job again: a new run, nothing kept of the last
NextRun ==
    /\ pc \in {"done", "aborted"}
    /\ db' = [old |-> Unasked, new |-> Unasked]
    /\ pc' = "start"
    /\ old_dict' = EmptyDict
    /\ new_list' = <<>>
    /\ idx' = 1
    /\ results' = <<>>
    /\ error' = NoError
    /\ fetches' = <<>>
    /\ rendered' = FALSE
    /\ sent' = "no"

Next == Connect \/ GetOld \/ GetNew \/ Iterate \/ Return \/ Render \/ SendEmail \/ NextRun

Spec == Init /\ [][Next]_vars

-----------------------------------------------------------------------------
(* Vocabulary of the properties *)

\* get_changes has returned its list
Returned == pc = "returned"

IdOf(r) == Get(r, "employee_id")

IdsOf(rows) == {IdOf(rows[i]) : i \in DOMAIN rows}

\* at most one record per employee_id
UniqueIds(rows) ==
    \A i, j \in DOMAIN rows : IdOf(rows[i]) = IdOf(rows[j]) => i = j

\* the positions in results of the events about employee id
EventsFor(id) == {k \in DOMAIN results : IdOf(results[k].data) = id}

\* the comparable attributes on which two records differ
Differing(old, new) == {f \in FieldSet : Get(old, f) # Get(new, f)}

\* the fields named by a list of deltas
DeltaFields(changes) == {changes[k].field : k \in DOMAIN changes}

\* The order in which the deltas of one event are to appear.
ReportOrder ==
    << "employee_name", "last_name", "first_name", "business_title",
       "worker_status", "employee_type", "job_code", "job_title", "job_family",
       "cost_center", "manager", "management_level", "email_primary_work" >>

ReportPos(f) == CHOOSE i \in DOMAIN ReportOrder : ReportOrder[i] = f

\* changes is the field-by-field difference of old and new: exactly the
\* differing attributes, each once, with the two values, in ReportOrder
ExactDeltas(changes, old, new) ==
    /\ DeltaFields(changes) = Differing(old, new)
    /\ \A k, l \in DOMAIN changes :
          /\ changes[k].field = changes[l].field => k = l
          /\ k < l => ReportPos(changes[k].field) < ReportPos(changes[l].field)
    /\ \A k \in DOMAIN changes :
          /\ changes[k].old = Get(old, changes[k].field)
          /\ changes[k].new = Get(new, changes[k].field)

\* both snapshots hold at most one record per employee_id
BothUnique == UniqueIds(db.old) /\ UniqueIds(db.new)

-----------------------------------------------------------------------------
(* Properties of get_changes, under DiffSpec *)

\* C1: with unique employee_id per snapshot, every target-day record whose
\* employee_id is absent from the previous-day snapshot has exactly one event,
\* an 'added' event whose data is that record (so with an empty previous-day
\* snapshot every target-day record is 'added').
C1_AddedComplete ==
    (Returned /\ BothUnique) =>
        \A i \in DOMAIN db.new :
            IdOf(db.new[i]) \notin IdsOf(db.old) =>
                /\ Cardinality(EventsFor(IdOf(db.new[i]))) = 1
                /\ \A k \in EventsFor(IdOf(db.new[i])) :
                      /\ DOMAIN results[k] = {"result", "data"}
                      /\ results[k].result = "added"
                      /\ results[k].data = db.new[i]

\* C1 witness: a non-empty previous-day snapshot, a target-day snapshot with
\* one employee of the previous day and one new employee, who is 'added'.
C1_Witness ==
    /\ Returned /\ BothUnique
    /\ IdsOf(db.old) = {"E2"}
    /\ IdsOf(db.new) = {"E1", "E2"}
    /\ \E k \in DOMAIN results :
          results[k].result = "added" /\ IdOf(results[k].data) = "E1"

\* C2: with unique employee_id per snapshot, every employee present in both
\* snapshots with at least one differing attribute has exactly one event, a
\* 'changed' event whose data is the target-day record and whose changes are
\* exactly the differing attributes, each once, old = previous-day value,
\* new = target-day value, in the fixed order.
C2_ChangedComplete ==
    (Returned /\ BothUnique) =>
        \A i \in DOMAIN db.new : \A j \in DOMAIN db.old :
            (/\ IdOf(db.new[i]) = IdOf(db.old[j])
             /\ Differing(db.old[j], db.new[i]) # {}) =>
                /\ Cardinality(EventsFor(IdOf(db.new[i]))) = 1
                /\ \A k \in EventsFor(IdOf(db.new[i])) :
                      /\ DOMAIN results[k] = {"result", "data", "changes"}
                      /\ results[k].result = "changed"
                      /\ results[k].data = db.new[i]
                      /\ ExactDeltas(results[k].changes, db.old[j], db.new[i])

\* C2 witness: an employee in both snapshots with several differing
\* attributes, reported with more than one delta.
C2_Witness ==
    /\ Returned /\ BothUnique
    /\ \E k \in DOMAIN results :
          /\ results[k].result = "changed"
          /\ Len(results[k].changes) >= 3
          /\ results[k].changes[1].field = "employee_name"

\* C3: with unique employee_id per snapshot, an employee present in both
\* snapshots with all 13 attributes equal has no event; and no 'changed'
\* event ever has an empty changes list.
C3_SilentOnNoChange ==
    Returned =>
        /\ \A k \in DOMAIN results :
              results[k].result = "changed" => results[k].changes # <<>>
        /\ BothUnique =>
              \A i \in DOMAIN db.new : \A j \in DOMAIN db.old :
                  (/\ IdOf(db.new[i]) = IdOf(db.old[j])
                   /\ Differing(db.old[j], db.new[i]) = {}) =>
                      EventsFor(IdOf(db.new[i])) = {}

\* C3 witness: two employees in both snapshots, one unchanged and one
\* changed; only the changed one is reported.
C3_Witness ==
    /\ Returned /\ BothUnique
    /\ Len(db.new) = 2 /\ Len(db.old) = 2
    /\ \E i \in DOMAIN db.new : \E j \in DOMAIN db.old :
          /\ IdOf(db.new[i]) = IdOf(db.old[j])
          /\ Differing(db.old[j], db.new[i]) = {}
    /\ Len(results) = 1

\* C4: every event carries a record of the target-day snapshot, an employee
\* only in the previous-day snapshot has no event, and when the target-day
\* snapshot holds nothing but records of the (unique-id) previous-day snapshot
\* the output is empty.
C4_NoRemovalEvents ==
    Returned =>
        /\ \A k \in DOMAIN results :
              /\ results[k].result \in {"added", "changed"}
              /\ \E i \in DOMAIN db.new : results[k].data = db.new[i]
        /\ \A id \in IdsOf(db.old) \ IdsOf(db.new) : EventsFor(id) = {}
        /\ (/\ UniqueIds(db.old)
            /\ \A i \in DOMAIN db.new :
                  \E j \in DOMAIN db.old : db.new[i] = db.old[j]) =>
              results = <<>>

\* C4 witness: the target-day snapshot lost one employee and changed the
\* other; the only event is about the one that stayed.
C4_Witness ==
    /\ Returned /\ BothUnique
    /\ IdsOf(db.old) = {"E1", "E2"}
    /\ IdsOf(db.new) = {"E1"}
    /\ Len(results) = 1

\* the record of the previous-day snapshot with the id of new (one exists and,
\* under UniqueIds, only one)
PreviousOf(new) ==
    db.old[CHOOSE j \in DOMAIN db.old : IdOf(db.old[j]) = IdOf(new)]

\* C5: for an employee in both snapshots, a field null on both sides is not
\* in the changes; a field null on one side and not null on the other (the
\* empty string included) is in the changes of a 'changed' event for that
\* employee, and the null side is None in the delta, not the empty string.
C5_NullHandling ==
    (Returned /\ BothUnique) =>
        \A i \in DOMAIN db.new :
            IdOf(db.new[i]) \in IdsOf(db.old) =>
                LET new == db.new[i]
                    old == PreviousOf(new)
                IN  \A f \in FieldSet :
                      /\ (Get(old, f) = None /\ Get(new, f) = None) =>
                            \A k \in EventsFor(IdOf(new)) :
                                f \notin DeltaFields(results[k].changes)
                      /\ ((Get(old, f) = None) # (Get(new, f) = None)) =>
                            \E k \in EventsFor(IdOf(new)) :
                                /\ results[k].result = "changed"
                                /\ \E d \in DOMAIN results[k].changes :
                                      LET delta == results[k].changes[d]
                                      IN  /\ delta.field = f
                                          /\ delta.old = Get(old, f)
                                          /\ delta.new = Get(new, f)
                                          /\ Get(old, f) = None => delta.old # Str(<<>>)
                                          /\ Get(new, f) = None => delta.new # Str(<<>>)

\* C5 witness: one event whose changes hold a delta from null to the empty
\* string and a delta from a text to null, for a record that also has a field
\* null on both sides.
C5_Witness ==
    /\ Returned /\ BothUnique
    /\ \E k \in DOMAIN results :
          /\ results[k].result = "changed"
          /\ Get(results[k].data, "job_title") = None
          /\ Get(PreviousOf(results[k].data), "job_title") = None
          /\ \E d \in DOMAIN results[k].changes :
                results[k].changes[d].old = None /\ results[k].changes[d].new = Str(<<>>)
          /\ \E d \in DOMAIN results[k].changes :
                results[k].changes[d].old # None /\ results[k].changes[d].new = None

\* C8: the events are in the order of their records in the target-day list:
\* the events, in output order, carry records at strictly increasing
\* positions of that list, whatever their kinds.
C8_OutputOrder ==
    Returned =>
        \E at \in [DOMAIN results -> DOMAIN db.new] :
            /\ \A k \in DOMAIN results : results[k].data = db.new[at[k]]
            /\ \A k, l \in DOMAIN results : k < l => at[k] < at[l]

\* C8 witness: a 'changed' event before an 'added' one, for two different
\* records of a target-day list given in that order.
C8_Witness ==
    /\ Returned
    /\ Len(results) = 2 /\ Len(db.new) = 2
    /\ db.new[1] # db.new[2]
    /\ results[1].result = "changed" /\ results[2].result = "added"

\* the last record of the previous-day list with employee id
LastOld(id) ==
    db.old[CHOOSE j \in DOMAIN db.old :
              /\ IdOf(db.old[j]) = id
              /\ \A m \in DOMAIN db.old : IdOf(db.old[m]) = id => m <= j]

\* C9: whatever records share an employee_id in the previous-day list, no
\* error is raised, old_dict holds the last of them, and the events for a
\* target-day record with that id are those of a comparison with that last
\* record alone.
C9_LastDuplicateWins ==
    /\ error = NoError
    /\ pc # "get_old" =>
          /\ DOMAIN old_dict = IdsOf(db.old)
          /\ \A id \in IdsOf(db.old) : old_dict[id] = LastOld(id)
    /\ (Returned /\ UniqueIds(db.new)) =>
          \A i \in DOMAIN db.new :
              IdOf(db.new[i]) \in IdsOf(db.old) =>
                  LET new == db.new[i]
                      last == LastOld(IdOf(new))
                  IN  IF Differing(last, new) = {}
                      THEN EventsFor(IdOf(new)) = {}
                      ELSE /\ Cardinality(EventsFor(IdOf(new))) = 1
                           /\ \A k \in EventsFor(IdOf(new)) :
                                 /\ results[k].result = "changed"
                                 /\ ExactDeltas(results[k].changes, last, new)

\* C9 witness: two different previous-day records of one employee, a
\* target-day record equal to the earlier one, reported as changed against
\* the later one.
C9_Witness ==
    /\ Returned
    /\ Len(db.old) = 2 /\ Len(db.new) = 1
    /\ IdOf(db.old[1]) = IdOf(db.old[2])
    /\ db.old[1] # db.old[2]
    /\ db.new[1] = db.old[1]
    /\ Len(results) = 1 /\ results[1].result = "changed"

-----------------------------------------------------------------------------
(* Properties of main_job over the Database, under Spec *)

\* the run was ended by an exception of a get_data call
FetchFailed == error.in = "get_data"

\* C6: when the fetch of either day fails, the run is aborted with that
\* failure: get_changes returns no list, no day is fetched a second time and
\* nothing is fetched after the failure, the report is not rendered and
\* send_email is not invoked.
C6_FetchFailureAborts ==
    /\ FetchFailed =>
          /\ pc = "aborted"
          /\ error.exc # "none"
          /\ results = <<>> /\ idx = 1
          /\ fetches \in {<<"old">>, <<"old", "new">>}
          /\ db[fetches[Len(fetches)]].exc # "unasked"
          /\ get_data(db[fetches[Len(fetches)]]).exc = error.exc
          /\ ~rendered
          /\ sent = "no"
    /\ (rendered \/ sent # "no" \/ pc \in {"returned", "send", "done"}) =>
          /\ fetches = <<"old", "new">>
          /\ get_data(db.old).exc = "none"
          /\ get_data(db.new).exc = "none"

\* C6 witness: the previous-day fetch succeeded and the target-day fetch
\* failed; the run is aborted.
C6_Witness ==
    /\ FetchFailed
    /\ pc = "aborted"
    /\ fetches = <<"old", "new">>
    /\ Len(db.old.tuples) = 2
    /\ db.new.exc = "DatabaseError"

\* the comparable attributes a record of get_data takes from the column of
\* the same name, and those it decodes from a _raw column
PlainAttributes ==
    {"worker_status", "employee_type", "job_code", "job_title", "job_family",
     "cost_center", "management_level", "email_primary_work"}

RawAttributes == {"employee_name", "business_title", "manager"}

\* the position in the select list of the column attribute f comes from
ColumnOf(f) ==
    CHOOSE i \in DOMAIN SelectList :
        Lower(SelectList[i]) = (IF f = "employee_name" THEN "employee_name_raw"
                                ELSE IF f = "business_title" THEN "business_title_raw"
                                ELSE IF f = "manager" THEN "manager_raw"
                                ELSE f)

\* every text of the tuples that is not null is well-formed UTF-8
WellEncoded(tuples) ==
    \A i \in DOMAIN tuples : \A f \in RawAttributes :
        tuples[i][ColumnOf(f)] # None => Utf8(tuples[i][ColumnOf(f)][2]).ok

\* C7: null is a valid value of every comparable attribute, employee_name
\* included: the previous-day fetch over well-encoded rows, whichever of
\* their attributes are null, raises nothing and returns each record with
\* those attributes null.
C7_NullIsValid ==
    (fetches = <<"old">> /\ db.old.exc = "none" /\ WellEncoded(db.old.tuples)) =>
        /\ error = NoError
        /\ \A i \in DOMAIN db.old.tuples :
              LET t == db.old.tuples[i]
              IN  /\ t[1] \in DOMAIN old_dict
                  /\ \A f \in PlainAttributes \cup RawAttributes :
                        t[ColumnOf(f)] = None => Get(old_dict[t[1]], f) = None

\* C10: no record of get_data has a last_name or a first_name key, so both
\* sides of the comparison of these fields are null and no delta of a
\* 'changed' event names one of them; the deltas name only the 11 other
\* fields.
C10_NoNameParts ==
    LET NoParts(r) == "last_name" \notin DOMAIN r /\ "first_name" \notin DOMAIN r
    IN  /\ \A id \in DOMAIN old_dict : NoParts(old_dict[id])
        /\ \A i \in DOMAIN new_list : NoParts(new_list[i])
        /\ \A k \in DOMAIN results :
              /\ NoParts(results[k].data)
              /\ results[k].result = "changed" =>
                    /\ Get(old_dict[IdOf(results[k].data)], "last_name") = None
                    /\ Get(old_dict[IdOf(results[k].data)], "first_name") = None
                    /\ Get(results[k].data, "last_name") = None
                    /\ Get(results[k].data, "first_name") = None
                    /\ DeltaFields(results[k].changes) \subseteq
                          PlainAttributes \cup RawAttributes

\* C10 witness: a 'changed' event over records of get_data whose deltas
\* include the decoded employee_name and a plain column.
C10_Witness ==
    /\ pc = "done"
    /\ \E k \in DOMAIN results :
          /\ results[k].result = "changed"
          /\ {"employee_name", "worker_status"} \subseteq DeltaFields(results[k].changes)

====
